---------------------------- MODULE Spec2Model ----------------------------
(* A model of leafless: the variable-length u64 codec (encoding.rs) and   *)
(* the block storage manager over one file (block_storage.rs).            *)
(*                                                                        *)
(* A u64 is a tuple of four 16-bit limbs, least significant first, so     *)
(* that the whole 64-bit range and its wrap-around are kept.              *)
EXTENDS Integers, Sequences, FiniteSets, TLC

VARIABLES
  overflow_checks,  \* build profile: TRUE (dev) panics on overflow, FALSE (release) wraps
  file,             \* the one file: [len: u64, data: position -> nonzero byte]
  state,            \* "uninitialized" | "ready" | "failed" | "panicked"
  meta,             \* BlockStorageMeta.offset of the manager (u64)
  origin,           \* how the current manager was obtained: "none" | "create" | "open"
  runs,             \* the DataBlocks returned so far, in order, with the call that made them
  history,          \* what has happened to the file since the last create
  last,             \* the last call: operation, arguments, result
  nops,             \* number of calls made (bounds the exploration)
  cv, cpc, cenc, cdec,  \* codec harness: the value, its position, encode's and decode's results
  rd                \* one readData call followed read by read: position in the loop, counters

vars == <<overflow_checks, file, state, meta, origin, runs, history, last, nops,
          cv, cpc, cenc, cdec, rd>>
storageVars == <<overflow_checks, file, state, meta, origin, runs, history, last, nops>>
codecVars == <<cv, cpc, cenc, cdec>>

--------------------------------------------------------------------------
(* u64 arithmetic *)

LimbBase == 2^16

Pow2(k) == 2^k

U64(n) == <<n % LimbBase, (n \div LimbBase) % LimbBase, 0, 0>>

Zero64 == <<0, 0, 0, 0>>

One64 == <<1, 0, 0, 0>>

U64_MAX == <<LimbBase - 1, LimbBase - 1, LimbBase - 1, LimbBase - 1>>

\* 2^k as a u64, 0 <= k <= 63
U64Pow2(k) ==
  LET limb(i) == IF i = (k \div 16) + 1 THEN Pow2(k % 16) ELSE 0
  IN <<limb(1), limb(2), limb(3), limb(4)>>

\* x + y: the wrapped sum and whether it overflowed
U64Add(x, y) ==
  LET s1 == x[1] + y[1]
      s2 == x[2] + y[2] + (s1 \div LimbBase)
      s3 == x[3] + y[3] + (s2 \div LimbBase)
      s4 == x[4] + y[4] + (s3 \div LimbBase)
  IN [val |-> <<s1 % LimbBase, s2 % LimbBase, s3 % LimbBase, s4 % LimbBase>>,
      overflow |-> s4 >= LimbBase]

\* x - y: the wrapped difference and whether it underflowed
U64Sub(x, y) ==
  LET d1 == x[1] - y[1]
      b1 == IF d1 < 0 THEN 1 ELSE 0
      d2 == x[2] - y[2] - b1
      b2 == IF d2 < 0 THEN 1 ELSE 0
      d3 == x[3] - y[3] - b2
      b3 == IF d3 < 0 THEN 1 ELSE 0
      d4 == x[4] - y[4] - b3
  IN [val |-> <<d1 % LimbBase, d2 % LimbBase, d3 % LimbBase, d4 % LimbBase>>,
      overflow |-> d4 < 0]

\* x * k for a small k (k <= 2^14): the wrapped product and whether it overflowed
U64Mul(x, k) ==
  LET p1 == x[1] * k
      p2 == x[2] * k + (p1 \div LimbBase)
      p3 == x[3] * k + (p2 \div LimbBase)
      p4 == x[4] * k + (p3 \div LimbBase)
  IN [val |-> <<p1 % LimbBase, p2 % LimbBase, p3 % LimbBase, p4 % LimbBase>>,
      overflow |-> p4 >= LimbBase]

U64Lt(x, y) ==
  \/ x[4] < y[4]
  \/ x[4] = y[4] /\ x[3] < y[3]
  \/ x[4] = y[4] /\ x[3] = y[3] /\ x[2] < y[2]
  \/ x[4] = y[4] /\ x[3] = y[3] /\ x[2] = y[2] /\ x[1] < y[1]

U64Le(x, y) == ~U64Lt(y, x)

\* bitwise and of two naturals below 2^n (anding with n one bits changes nothing)
RECURSIVE BitAnd(_, _, _)
BitAnd(a, b, n) ==
  IF n = 0 \/ a = 0 \/ b = 0 THEN 0
  ELSE IF b = Pow2(n) - 1 THEN a
  ELSE IF a = Pow2(n) - 1 THEN b
  ELSE (IF a % 2 = 1 /\ b % 2 = 1 THEN 1 ELSE 0) + 2 * BitAnd(a \div 2, b \div 2, n - 1)

U64And(x, y) ==
  <<BitAnd(x[1], y[1], 16), BitAnd(x[2], y[2], 16), BitAnd(x[3], y[3], 16), BitAnd(x[4], y[4], 16)>>

\* x >> k, 0 <= k < 16
U64Shr(x, k) ==
  LET limb(i) == (x[i] \div Pow2(k)) + (IF i < 4 THEN (x[i + 1] % Pow2(k)) * Pow2(16 - k) ELSE 0)
  IN <<limb(1), limb(2), limb(3), limb(4)>>

\* x << n, 0 <= n < 64; the bits shifted out are dropped
U64Shl(x, n) ==
  LET q == n \div 16
      r == n % 16
      limb(j) == IF j >= 1 THEN x[j] ELSE 0
      out(i) == ((limb(i - q) * Pow2(r)) % LimbBase) + (limb(i - q - 1) \div Pow2(16 - r))
  IN <<out(1), out(2), out(3), out(4)>>

--------------------------------------------------------------------------
(* encoding.rs *)

BITS_PER_BYTE == 7

SEVEN_BYTES_ONE_BIT == <<LimbBase - 128, LimbBase - 1, LimbBase - 1, LimbBase - 1>>

SEVEN_BITS == 127

HAS_NEXT == 128

\* VecDeque<u8> / Vec<u8>: its length and its nonzero bytes by 0-based index
EmptyBuf == [len |-> 0, nz |-> <<>>]

BufAt(buf, i) == IF i \in DOMAIN buf.nz THEN buf.nz[i] ELSE 0

push_back(buf, byte) ==
  [len |-> buf.len + 1,
   nz |-> [i \in DOMAIN buf.nz \cup (IF byte # 0 THEN {buf.len} ELSE {}) |->
             IF i = buf.len THEN byte ELSE buf.nz[i]]]

\* pop_front: None on an empty deque, else the first byte and the deque without it
pop_front(buf) ==
  IF buf.len = 0 THEN [some |-> FALSE, byte |-> 0, rest |-> buf]
  ELSE [some |-> TRUE, byte |-> BufAt(buf, 0),
        rest |-> [len |-> buf.len - 1,
                  nz |-> [i \in {j - 1 : j \in DOMAIN buf.nz \ {0}} |-> buf.nz[i + 1]]]]

\* encode_u64's loop without its break: all the passes left are made
RECURSIVE encode_loop_no_break(_, _, _)
encode_loop_no_break(value, buf, n) ==
  IF n = 0 THEN [value |-> value, buf |-> buf]
  ELSE LET low == U64And(value, U64(SEVEN_BITS))[1]
           shifted == U64Shr(U64And(value, SEVEN_BYTES_ONE_BIT), BITS_PER_BYTE)
           byte == IF shifted # Zero64 THEN low + HAS_NEXT ELSE low
       IN encode_loop_no_break(shifted, push_back(buf, byte), n - 1)

\* one pass of encode_u64's loop body, then the rest of the loop (n passes are left)
RECURSIVE encode_loop(_, _, _)
encode_loop(value, buf, n) ==
  IF n = 0 THEN [value |-> value, buf |-> buf]
  ELSE LET low == U64And(value, U64(SEVEN_BITS))[1]
           shifted == U64Shr(U64And(value, SEVEN_BYTES_ONE_BIT), BITS_PER_BYTE)
           byte == IF shifted # Zero64 THEN low + HAS_NEXT ELSE low
           pushed == push_back(buf, byte)
       IN IF shifted = Zero64 THEN [value |-> shifted, buf |-> pushed]
          ELSE encode_loop(shifted, pushed, n - 1)

\* encode_u64 without the raw 9th byte
encode_u64_eight_bytes(value) == encode_loop(value, EmptyBuf, 8).buf

encode_u64(value) ==
  LET r == encode_loop(value, EmptyBuf, 8)
  IN IF r.value # Zero64
     THEN push_back(r.buf, U64And(r.value, U64(255))[1])
     ELSE r.buf

\* decode_u64's loop reading on whatever HAS_NEXT says, as long as bytes are left
RECURSIVE decode_loop_ignore_has_next(_, _, _)
decode_loop_ignore_has_next(value, data, i) ==
  LET p == pop_front(data)
  IN IF ~p.some THEN [value |-> value, data |-> data]
     ELSE IF i = 8
     THEN [value |-> U64Add(value, U64Shl(U64(p.byte), BITS_PER_BYTE * 8)).val, data |-> p.rest]
     ELSE decode_loop_ignore_has_next(
            U64Add(value, U64Shl(U64(BitAnd(p.byte, SEVEN_BITS, 8)), BITS_PER_BYTE * i)).val,
            p.rest, i + 1)

\* decode_u64's loop from pass i on; the result is the value and what is left of data
RECURSIVE decode_loop(_, _, _)
decode_loop(value, data, i) ==
  IF i = 8
  THEN LET p == pop_front(data)
       IN IF p.some
          THEN [value |-> U64Add(value, U64Shl(U64(p.byte), BITS_PER_BYTE * 8)).val, data |-> p.rest]
          ELSE [value |-> value, data |-> data]
  ELSE LET p == pop_front(data)
       IN IF p.some
          THEN LET byte_val == BitAnd(p.byte, SEVEN_BITS, 8)
                   has_next == BitAnd(p.byte, HAS_NEXT, 8) # 0
                   sum == U64Add(value, U64Shl(U64(byte_val), BITS_PER_BYTE * i)).val
               IN IF ~has_next THEN [value |-> sum, data |-> p.rest]
                  ELSE decode_loop(sum, p.rest, i + 1)
          ELSE [value |-> value, data |-> data]

decode_u64(data) == decode_loop(Zero64, data, 0)

--------------------------------------------------------------------------
(* The file behind fs::File: set_len, seek + write_all, seek + read *)

BLOCK_SIZE == 4096

\* a u64 known to be below 2^31, as a number
ToNat(x) == x[1] + x[2] * LimbBase

Min(a, b) == IF a < b THEN a ELSE b

\* seek(SeekFrom::Start(position)) and set_len(size) take the u64 as a signed
\* 64-bit file offset: a value above i64::MAX is refused with an error
OffsetOk(position) == position[4] < Pow2(15)

\* i - position for a byte i at or after position, when below n
Within(position, q, n) == U64Le(position, q) /\ U64Lt(U64Sub(q, position).val, U64(n))

\* set_len: truncate, or extend with zero bytes
file_set_len(f, size) ==
  [len |-> size, data |-> [q \in {k \in DOMAIN f.data : U64Lt(k, size)} |-> f.data[q]]]

\* write_all of buf at position: the bytes replace what was there, the file grows to hold them
file_write_all(f, position, buf) ==
  LET keep == {q \in DOMAIN f.data : ~Within(position, q, buf.len)}
      new == {U64Add(position, U64(i)).val : i \in DOMAIN buf.nz}
      end == U64Add(position, U64(buf.len)).val
  IN [len |-> IF buf.len > 0 /\ U64Lt(f.len, end) THEN end ELSE f.len,
      data |-> [q \in keep \cup new |->
                  IF q \in new THEN buf.nz[ToNat(U64Sub(q, position).val)] ELSE f.data[q]]]

\* one read of at most want bytes at position: what the file holds there, nothing at or past its end
file_read(f, position, want) ==
  LET avail == U64Sub(f.len, position).val
      n == IF U64Le(f.len, position) THEN 0
           ELSE IF U64Lt(avail, U64(want)) THEN ToNat(avail) ELSE want
      keys == {q \in DOMAIN f.data : Within(position, q, n)}
  IN [len |-> n,
      nz |-> [i \in {ToNat(U64Sub(q, position).val) : q \in keys} |->
                f.data[U64Add(position, U64(i)).val]]]

\* the first n bytes of buf
Prefix(buf, n) == [len |-> n, nz |-> [i \in {j \in DOMAIN buf.nz : j < n} |-> buf.nz[i]]]

--------------------------------------------------------------------------
(* block_storage.rs *)

serialize(offset) == encode_u64(offset)

deserialize(data) == decode_u64(data).value

\* writeFlush: seek, write_all, flush. io names the call the file system fails, if any;
\* a failing write_all has written all but the last byte. File::flush does nothing and
\* returns Ok: it never fails
writeFlush(f, position, data, io) ==
  IF ~OffsetOk(position) \/ io = "seek" THEN [res |-> "io_error", file |-> f]
  ELSE IF io = "write"
  THEN [res |-> "io_error",
        file |-> file_write_all(f, position, Prefix(data, IF data.len > 0 THEN data.len - 1 ELSE 0))]
  ELSE [res |-> "ok", file |-> file_write_all(f, position, data)]

flushMeta(f, offset, io) == writeFlush(f, Zero64, serialize(offset), io)

\* readData's loop: each read takes at most chunk bytes (a short read) at the file's
\* cursor, until a read returns 0 bytes or max_length bytes are there
RECURSIVE read_loop(_, _, _, _, _, _)
read_loop(f, position, buf, total_read, max_length, chunk) ==
  LET got == file_read(f, U64Add(position, U64(total_read)).val,
                       Min(max_length - total_read, chunk))
      filled == [len |-> buf.len,
                 nz |-> [i \in DOMAIN buf.nz \cup {j + total_read : j \in DOMAIN got.nz} |->
                           IF i \in DOMAIN buf.nz THEN buf.nz[i] ELSE got.nz[i - total_read]]]
      total == total_read + got.len
  IN IF got.len = 0 \/ total = max_length THEN filled
     ELSE read_loop(f, position, filled, total, max_length, chunk)

\* readData: seek, a zeroed buffer of max_length bytes (Vec::with_capacity panics above
\* isize::MAX, and a buffer of 2^31 bytes or more is taken not to be allocatable), the loop
readData(f, position, max_length, chunk, io) ==
  IF ~OffsetOk(position) THEN [res |-> "io_error", buf |-> EmptyBuf]
  ELSE IF max_length[4] # 0 \/ max_length[3] # 0 \/ max_length[2] >= Pow2(15)
  THEN [res |-> "panic", buf |-> EmptyBuf]
  ELSE IF io = "read" THEN [res |-> "io_error", buf |-> EmptyBuf]
  ELSE [res |-> "ok",
        buf |-> read_loop(f, position, [len |-> ToNat(max_length), nz |-> <<>>], 0,
                          ToNat(max_length), chunk)]

NoBlock == [offset |-> Zero64, size |-> Zero64]

\* create: offset 1, flushMeta
create(f, io) ==
  LET flushed == flushMeta(f, One64, io)
  IN [res |-> flushed.res, offset |-> One64, file |-> flushed.file]

\* open: offset 0, readData(0, BLOCK_SIZE), deserialize
open(f, chunk, io) ==
  LET header == readData(f, Zero64, U64(BLOCK_SIZE), chunk, io)
  IN [res |-> header.res,
      offset |-> IF header.res = "ok" THEN deserialize(header.buf) ELSE Zero64]

\* claimBlock persisting the offset it had before advancing it
claimBlock_flush_stale(offset, f, count, checks, io) ==
  LET add == U64Add(offset, count)
      mul == U64Mul(add.val, BLOCK_SIZE)
      flushed == flushMeta(file_set_len(f, mul.val), offset, io)
  IN IF (add.overflow \/ mul.overflow) /\ checks
     THEN [res |-> "panic", offset |-> offset, file |-> f, block |-> NoBlock]
     ELSE [res |-> flushed.res, offset |-> add.val, file |-> flushed.file,
           block |-> [offset |-> U64Sub(add.val, count).val,
                      size |-> U64Mul(count, BLOCK_SIZE).val]]

\* claimBlock: advance the offset, set_len, flushMeta, return the DataBlock. An
\* arithmetic overflow panics under overflow checks and wraps without them
claimBlock(offset, f, count, checks, io) ==
  LET add == U64Add(offset, count)
      mul == U64Mul(add.val, BLOCK_SIZE)
      flushed == flushMeta(file_set_len(f, mul.val), add.val, io)
      sub == U64Sub(add.val, count)
      size == U64Mul(count, BLOCK_SIZE)
  IN IF add.overflow /\ checks
     THEN [res |-> "panic", offset |-> offset, file |-> f, block |-> NoBlock]
     ELSE IF mul.overflow /\ checks
     THEN [res |-> "panic", offset |-> add.val, file |-> f, block |-> NoBlock]
     ELSE IF ~OffsetOk(mul.val) \/ io = "set_len"
     THEN [res |-> "io_error", offset |-> add.val, file |-> f, block |-> NoBlock]
     ELSE IF flushed.res # "ok"
     THEN [res |-> "io_error", offset |-> add.val, file |-> flushed.file, block |-> NoBlock]
     ELSE IF (sub.overflow \/ size.overflow) /\ checks
     THEN [res |-> "panic", offset |-> add.val, file |-> flushed.file, block |-> NoBlock]
     ELSE [res |-> "ok", offset |-> add.val, file |-> flushed.file,
           block |-> [offset |-> sub.val, size |-> size.val]]

\* block.offset * BLOCK_SIZE + offset, as writeBlockOffset and readBlockOffset compute it
blockPosition(block, offset) ==
  LET mul == U64Mul(block.offset, BLOCK_SIZE)
      add == U64Add(mul.val, offset)
  IN [val |-> add.val, overflow |-> mul.overflow \/ add.overflow]

\* writeBlockOffset: the capacity check, then writeFlush at the block's position
writeBlockOffset(f, block, offset, data, checks, io) ==
  LET end == U64Add(U64(data.len), offset)
      position == blockPosition(block, offset)
  IN IF end.overflow /\ checks THEN [res |-> "panic", file |-> f]
     ELSE IF U64Lt(block.size, end.val) THEN [res |-> "invalid_data", file |-> f]
     ELSE IF position.overflow /\ checks THEN [res |-> "panic", file |-> f]
     ELSE writeFlush(f, position.val, data, io)

\* readBlockOffset: readData at the block's position, no check against block.size
readBlockOffset(f, block, offset, max_length, checks, chunk, io) ==
  LET position == blockPosition(block, offset)
  IN IF position.overflow /\ checks THEN [res |-> "panic", buf |-> EmptyBuf]
     ELSE readData(f, position.val, max_length, chunk, io)

--------------------------------------------------------------------------
(* The storage manager's callers: one file, one manager at a time. Every   *)
(* call is one step; its inputs and the file system's failures are chosen  *)
(* freely. A caller drops a manager whose call failed with an I/O error    *)
(* (spec.md 4.2, 7: fatal to the instance); the file can be opened again.  *)

MaxClaims == 2

MaxWrites == 1

MaxReads == 1

MaxOpens == 1

\* block counts asked for: small ones, and ones whose sums or byte sizes pass 2^64
Counts == {One64, U64(2), U64Pow2(52), U64_MAX}

\* n bytes of data: 171, 9, zeros, and 77 as the last byte of a long buffer
Data(n) ==
  [len |-> n,
   nz |-> [i \in {j \in {0, 1, n - 1} : 0 <= j /\ j < n} |->
             IF i = 0 THEN 171 ELSE IF i = 1 THEN 9 ELSE 77]]

\* writes inside a one-block run, across its end, longer than it (the test's
\* BLOCK_SIZE + 1 bytes), and at offsets at the top of the u64 range
WriteInputs ==
  {[offset |-> Zero64, data |-> Data(2)],
   [offset |-> U64(BLOCK_SIZE - 1), data |-> Data(1)],
   [offset |-> U64(BLOCK_SIZE - 1), data |-> Data(2)],
   [offset |-> Zero64, data |-> Data(BLOCK_SIZE + 1)],
   [offset |-> U64_MAX, data |-> Data(1)],
   [offset |-> U64Sub(Zero64, U64(BLOCK_SIZE)).val, data |-> Data(BLOCK_SIZE + 1)]}

\* reads of the whole run (readBlock), of nothing, inside the run, across its end,
\* and at offsets at the top of the i64 and u64 ranges
ReadInputs(block) ==
  {[offset |-> Zero64, max_length |-> block.size],
   [offset |-> Zero64, max_length |-> Zero64],
   [offset |-> Zero64, max_length |-> U64(2)],
   [offset |-> U64(BLOCK_SIZE - 1), max_length |-> U64(2)],
   [offset |-> U64Pow2(63), max_length |-> U64(2)],
   [offset |-> U64_MAX, max_length |-> U64(2)]}

\* a short read returns at most this many bytes
ReadChunks == {BLOCK_SIZE \div 2, BLOCK_SIZE}

\* the call the file system fails, if any
WriteIo == {"ok", "seek", "write"}

ReadIo == {"ok", "read"}

\* the write calls tried: every input on a file system that works, and the first input
\* with each failure of the file system
WriteCalls ==
  {[in |-> w, io |-> "ok"] : w \in WriteInputs}
    \cup {[in |-> [offset |-> Zero64, data |-> Data(2)], io |-> e] : e \in WriteIo}

\* the read calls tried: every input on a file system that works, and readBlock with a
\* failing read
ReadCalls(block) ==
  {[in |-> r, io |-> "ok"] : r \in ReadInputs(block)}
    \cup {[in |-> [offset |-> Zero64, max_length |-> block.size], io |-> e] : e \in ReadIo}

\* the files a caller may hand over: an empty one, and one with content to be overwritten
InitFiles ==
  {[len |-> Zero64, data |-> <<>>],
   [len |-> U64(3 * BLOCK_SIZE),
    data |-> (Zero64 :> 200) @@ (One64 :> 9) @@ (U64(BLOCK_SIZE) :> 77)
               @@ (U64(2 * BLOCK_SIZE - 1) :> 78)]}

\* no readData call is being followed
NotReading == [pc |-> "idle", max_length |-> 0, total_read |-> 0, read |-> 0, parity |-> 0]

NoCalls == [claims |-> 0, writes |-> 0, reads |-> 0, opens |-> 0]

Init ==
  /\ overflow_checks \in BOOLEAN
  /\ file \in InitFiles
  /\ state = "uninitialized"
  /\ meta = Zero64
  /\ origin = "none"
  /\ runs = <<>>
  /\ history = [pure |-> FALSE, empty |-> FALSE]
  /\ last = [op |-> "none", res |-> "none"]
  /\ nops = NoCalls
  /\ cv = Zero64
  /\ cpc = "idle"
  /\ cenc = EmptyBuf
  /\ cdec = [value |-> Zero64, data |-> EmptyBuf]
  /\ rd = NotReading

\* the manager after a call that ended res
After(res) == IF res = "ok" \/ res = "invalid_data" THEN "ready"
              ELSE IF res = "panic" THEN "panicked" ELSE "failed"

\* BlockStorage::create on a file just opened
Create ==
  /\ state = "uninitialized"
  /\ \E io \in WriteIo :
       \E r \in {create(file, io)} :
          /\ file' = r.file
          /\ state' = After(r.res)
          /\ meta' = IF r.res = "ok" THEN r.offset ELSE meta
          /\ origin' = IF r.res = "ok" THEN "create" ELSE origin
          /\ history' = [pure |-> r.res = "ok", empty |-> r.res = "ok" /\ file.len = Zero64]
          /\ last' = [op |-> "create", res |-> r.res, before |-> file]
  /\ UNCHANGED <<overflow_checks, runs, nops, codecVars, rd>>

\* BlockStorage::open on the file, by a new owner: the manager there was is gone
Open ==
  /\ nops.opens < MaxOpens
  /\ \E io \in ReadIo, chunk \in ReadChunks :
       \E r \in {open(file, chunk, io)} :
          /\ state' = After(r.res)
          /\ meta' = r.offset
          /\ origin' = IF r.res = "ok" THEN "open" ELSE "none"
          /\ last' = [op |-> "open", res |-> r.res, before_meta |-> meta,
                      pure |-> history.pure /\ state = "ready"]
  /\ history' = [pure |-> FALSE, empty |-> FALSE]
  /\ nops' = [nops EXCEPT !.opens = @ + 1]
  /\ UNCHANGED <<overflow_checks, file, runs, codecVars, rd>>

\* BlockStorage::claimBlock(count)
ClaimBlock ==
  /\ state = "ready"
  /\ nops.claims < MaxClaims
  /\ \E count \in Counts, io \in WriteIo \cup {"set_len"} :
       \E r \in {claimBlock(meta, file, count, overflow_checks, io)} :
          /\ file' = r.file
          /\ meta' = r.offset
          /\ state' = After(r.res)
          /\ runs' = IF r.res = "ok"
                     THEN Append(runs, [offset |-> r.block.offset, size |-> r.block.size,
                                        count |-> count, written |-> FALSE, via |-> origin])
                     ELSE runs
          /\ history' = [history EXCEPT !.pure = @ /\ r.res = "ok"]
          /\ last' = [op |-> "claimBlock", res |-> r.res, count |-> count, io |-> io,
                      block |-> r.block, before_meta |-> meta, before |-> file]
  /\ nops' = [nops EXCEPT !.claims = @ + 1]
  /\ UNCHANGED <<overflow_checks, origin, codecVars, rd>>

\* BlockStorage::writeBlockOffset(block, offset, data); writeBlock is offset 0
WriteBlockOffset ==
  /\ state = "ready"
  /\ nops.writes < MaxWrites
  /\ \E i \in 1..Len(runs), call \in WriteCalls :
       \E r \in {writeBlockOffset(file, runs[i], call.in.offset, call.in.data,
                                   overflow_checks, call.io)} :
          /\ file' = r.file
          /\ state' = After(r.res)
          /\ runs' = [runs EXCEPT ![i].written = TRUE]
          /\ last' = [op |-> "write", res |-> r.res, run |-> i, offset |-> call.in.offset,
                      data |-> call.in.data, io |-> call.io, before |-> file,
                      before_meta |-> meta]
  /\ history' = [history EXCEPT !.pure = FALSE]
  /\ nops' = [nops EXCEPT !.writes = @ + 1]
  /\ UNCHANGED <<overflow_checks, meta, origin, codecVars, rd>>

\* BlockStorage::readBlockOffset(block, offset, max_length); readBlock is offset 0, block.size
ReadBlockOffset ==
  /\ state = "ready"
  /\ nops.reads < MaxReads
  /\ \E i \in 1..Len(runs), chunk \in ReadChunks :
       \E call \in ReadCalls(runs[i]) :
         \E r \in {readBlockOffset(file, runs[i], call.in.offset, call.in.max_length,
                                    overflow_checks, chunk, call.io)} :
            /\ state' = After(r.res)
            /\ last' = [op |-> "read", res |-> r.res, run |-> i, offset |-> call.in.offset,
                        max_length |-> call.in.max_length, io |-> call.io, buf |-> r.buf,
                        before |-> file, before_meta |-> meta]
  /\ nops' = [nops EXCEPT !.reads = @ + 1]
  /\ UNCHANGED <<overflow_checks, file, meta, origin, runs, history, codecVars, rd>>

Next == Create \/ Open \/ ClaimBlock \/ WriteBlockOffset \/ ReadBlockOffset

Spec == Init /\ [][Next]_vars

\* the callers that only create, allocate and open again
NextPersist == Create \/ ClaimBlock \/ Open

SpecPersist == Init /\ [][NextPersist]_vars

--------------------------------------------------------------------------
(* The claims about the storage manager *)

\* x + y and x * BLOCK_SIZE as numbers: defined only when they stay below 2^64
SumIs(x, y, z) == ~U64Add(x, y).overflow /\ U64Add(x, y).val = z

\* the runs, all returned by the manager create made, in calls that all succeeded
PureRuns == origin = "create" /\ history.pure

\* C1: after create and successful allocate calls only, each returned run starts where
\* the one before it ended (start + block_count, as numbers), so the runs are disjoint
C1_Contiguous ==
  PureRuns =>
    \A i \in 1..(Len(runs) - 1) : SumIs(runs[i].offset, runs[i].count, runs[i + 1].offset)

\* whether offset + n <= size as numbers
Fits(offset, n, size) ==
  ~U64Add(U64(n), offset).overflow /\ U64Le(U64Add(U64(n), offset).val, size)

\* start_block_index * BLOCK_SIZE + offset as a number: defined when below 2^64
AbsolutePosition(block, offset) == blockPosition(block, offset)

\* C2: after a successful write(run, offset, data) that fits the run, read(run, offset,
\* len(data)) returns data, and the file holds data at start * BLOCK_SIZE + offset
C2_WriteThenRead ==
  (origin = "create" /\ last.op = "write" /\ last.res = "ok"
     /\ Fits(last.offset, last.data.len, runs[last.run].size)) =>
    /\ readBlockOffset(file, runs[last.run], last.offset, U64(last.data.len),
                       overflow_checks, BLOCK_SIZE, "ok")
         = [res |-> "ok", buf |-> last.data]
    /\ ~AbsolutePosition(runs[last.run], last.offset).overflow
    /\ file_read(file, AbsolutePosition(runs[last.run], last.offset).val, last.data.len)
         = last.data

\* C3: a write with offset + len(data) > byte_size (as numbers) returns the capacity
\* error and leaves the file as it was, whatever the offset; shown here for the calls
\* the file system does not fail
C3_CapacityViolation ==
  (origin = "create" /\ last.op = "write" /\ last.io = "ok"
     /\ ~Fits(last.offset, last.data.len, runs[last.run].size)) =>
    (last.res = "invalid_data" /\ file = last.before)

\* C5: open after create and successful allocate calls only yields the offset the
\* writing manager held; 1 when nothing was allocated
C5_PersistRoundTrip ==
  (last.op = "open" /\ last.res = "ok" /\ last.pure) =>
    /\ meta = last.before_meta
    /\ Len(runs) = 0 => meta = One64

\* an open after create and at least one allocate, recovering an offset past 1
C5_Witness ==
  /\ last.op = "open" /\ last.res = "ok" /\ last.pure
  /\ Len(runs) >= 1
  /\ meta = last.before_meta /\ U64Lt(One64, meta)

\* the bytes of block 0, the metadata block
MetaBlock(f) == [q \in {k \in DOMAIN f.data : U64Lt(k, U64(BLOCK_SIZE))} |-> f.data[q]]

\* C6: a ready manager's next_free_block_index is at least 1, no returned run starts at
\* block 0, and a successful write through a run leaves the metadata block alone
C6_NextFreeAtLeastOne ==
  /\ state = "ready" => meta # Zero64
  /\ \A i \in 1..Len(runs) : runs[i].offset # Zero64
  /\ (last.op = "write" /\ last.res = "ok") => MetaBlock(file) = MetaBlock(last.before)

\* C7: under a manager made by create, reading byte_size bytes of a run never written
\* returns zero bytes only
C7_UnwrittenReadsZero ==
  (origin = "create" /\ last.op = "read" /\ last.res = "ok" /\ last.offset = Zero64
     /\ last.max_length = runs[last.run].size /\ ~runs[last.run].written) =>
    DOMAIN last.buf.nz = {}

\* C8: right after a successful allocate the file is next_free * BLOCK_SIZE bytes long
\* (as numbers) and the metadata block decodes to the in-memory next_free
C8_LengthAfterAllocate ==
  (origin = "create" /\ last.op = "claimBlock" /\ last.res = "ok") =>
    /\ ~U64Mul(meta, BLOCK_SIZE).overflow
    /\ file.len = U64Mul(meta, BLOCK_SIZE).val
    /\ open(file, BLOCK_SIZE, "ok") = [res |-> "ok", offset |-> meta]

\* C9: once create has succeeded on an empty file, the file length is a multiple of
\* BLOCK_SIZE after create and after every later call
C9_LengthMultiple ==
  (origin = "create" /\ history.empty) => file.len[1] % BLOCK_SIZE = 0

\* the bytes read(block, offset, n) should return: the file's bytes at
\* start * BLOCK_SIZE + offset + i (as numbers) where the file has them, zeros elsewhere
ExpectedRead(f, block, offset, n) ==
  LET position == AbsolutePosition(block, offset)
      keys == IF position.overflow THEN {}
              ELSE {q \in DOMAIN f.data : Within(position.val, q, n)}
  IN [len |-> n,
      nz |-> [i \in {ToNat(U64Sub(q, position.val).val) : q \in keys} |->
                f.data[U64Add(position.val, U64(i)).val]]]

\* C10: a read the file system does not fail never fails, whatever the offset: it
\* returns max_length bytes, the file's where it has them and zeros past its end
C10_ReadNeverFails ==
  (origin = "create" /\ last.op = "read" /\ last.io = "ok") =>
    /\ last.res = "ok"
    /\ last.buf = ExpectedRead(file, runs[last.run], last.offset, ToNat(last.max_length))

--------------------------------------------------------------------------
(* The codec harness: encode a value, then decode what encode returned. *)

\* the values tried: 2^k and 2^k - 1 for every bit k, u64::MAX, and the test's 0xFF0000
CodecValues ==
  {U64Pow2(k) : k \in 0..63} \cup {U64Sub(U64Pow2(k), One64).val : k \in 0..63}
    \cup {U64_MAX, <<0, 255, 0, 0>>}

InitCodec ==
  /\ cv \in CodecValues
  /\ cpc = "start"
  /\ cenc = EmptyBuf
  /\ cdec = [value |-> Zero64, data |-> EmptyBuf]
  /\ rd = NotReading
  /\ overflow_checks = FALSE
  /\ file = [len |-> Zero64, data |-> <<>>]
  /\ state = "uninitialized"
  /\ meta = Zero64
  /\ origin = "none"
  /\ runs = <<>>
  /\ history = [pure |-> FALSE, empty |-> FALSE]
  /\ last = [op |-> "none", res |-> "none"]
  /\ nops = NoCalls

Encode ==
  /\ cpc = "start"
  /\ cenc' = encode_u64(cv)
  /\ cpc' = "encoded"
  /\ UNCHANGED <<cv, cdec, storageVars, rd>>

Decode ==
  /\ cpc = "encoded"
  /\ cdec' = decode_u64(cenc)
  /\ cpc' = "decoded"
  /\ UNCHANGED <<cv, cenc, storageVars, rd>>

NextCodec == Encode \/ Decode

SpecCodec == InitCodec /\ [][NextCodec]_vars

\* C4: decode_u64(encode_u64(v)) = v for every u64 v tried, from 0 to u64::MAX
C4_RoundTrip == cpc = "decoded" => cdec.value = cv

\* the 9-byte path has been taken: u64::MAX was encoded and decoded
C4_Witness == cpc = "decoded" /\ cv = U64_MAX /\ cenc.len = 9 /\ cdec.value = U64_MAX


\* the number of 7-bit groups v needs, 9 when v has a bit at or above 2^56
EncodedLen(v) ==
  LET ks == {k \in 1..8 : U64Lt(v, U64Pow2(BITS_PER_BYTE * k))}
  IN IF ks = {} THEN 9 ELSE CHOOSE k \in ks : \A j \in ks : k <= j

\* C11: encode_u64(v) is 1 byte for v < 128, k bytes for 2^(7(k-1)) <= v < 2^(7k) with
\* 2 <= k <= 8, 9 bytes for v >= 2^56, never more than 9, and no shorter than the
\* encoding of any smaller value
C11_EncodedLength ==
  cpc \in {"encoded", "decoded"} =>
    /\ cenc.len = EncodedLen(cv)
    /\ cenc.len <= 9
    /\ \A w \in CodecValues : U64Le(w, cv) => encode_u64(w).len <= cenc.len

\* 2^56, the first value that needs the 9th byte, has been encoded in 9 bytes
C11_Witness == cpc = "encoded" /\ cv = U64Pow2(56) /\ cenc.len = 9

--------------------------------------------------------------------------
(* The codec on a buffer that holds more than one encoding: a value is     *)
(* encoded, bytes are put after it, as in the metadata block open reads,   *)
(* and the whole is decoded.                                               *)

\* a then b in one buffer
Concat(a, b) ==
  [len |-> a.len + b.len,
   nz |-> [i \in DOMAIN a.nz \cup {j + a.len : j \in DOMAIN b.nz} |->
             IF i < a.len THEN a.nz[i] ELSE b.nz[i - a.len]]]

\* what follows the encoding: nothing, one zero byte, the zero padding of a block, bytes
\* of an older file, and bytes that all have HAS_NEXT set
Tails ==
  {EmptyBuf,
   [len |-> 1, nz |-> <<>>],
   [len |-> BLOCK_SIZE - 1, nz |-> <<>>],
   Data(2),
   [len |-> BLOCK_SIZE - 9, nz |-> (0 :> 9) @@ (BLOCK_SIZE - 10 :> 78)],
   [len |-> 9, nz |-> [i \in 0..8 |-> 255]]}

DecodeTail ==
  /\ cpc = "encoded"
  /\ \E tail \in Tails :
       \E r \in {decode_u64(Concat(cenc, tail))} :
          cdec' = [value |-> r.value, data |-> r.data, tail |-> tail]
  /\ cpc' = "decoded_tail"
  /\ UNCHANGED <<cv, cenc, storageVars, rd>>

NextCodecTail == Encode \/ DecodeTail

SpecCodecTail == InitCodec /\ [][NextCodecTail]_vars

\* C19: decode_u64(encode_u64(v) ++ tail) = v, and what is left of the buffer is tail:
\* exactly the bytes of the encoding were taken from the front
C19_TrailingBytes ==
  cpc = "decoded_tail" =>
    /\ cdec.value = cv
    /\ cdec.data = cdec.tail
    /\ cdec.data.len = cenc.len + cdec.tail.len - cenc.len

\* u64::MAX followed by nine bytes with HAS_NEXT set: 9 bytes taken, the nine left
C19_Witness ==
  /\ cpc = "decoded_tail" /\ cv = U64_MAX /\ cdec.tail.len = 9
  /\ DOMAIN cdec.tail.nz = 0..8 /\ cdec.data.len = 9 /\ cdec.value = U64_MAX

--------------------------------------------------------------------------
(* The claims about the allocator's counter, its failures and the runs' bytes *)

\* the next_free_block_index a manager opening f would start with
Persisted(f) == open(f, BLOCK_SIZE, "ok").offset

\* C17: a successful claimBlock(count) returns the offset held before the call and
\* count * BLOCK_SIZE as numbers, and leaves old + count as a number in the offset
C17_NoWrap ==
  (origin = "create" /\ last.op = "claimBlock" /\ last.res = "ok") =>
    /\ last.block.offset = last.before_meta
    /\ ~U64Mul(last.count, BLOCK_SIZE).overflow
    /\ last.block.size = U64Mul(last.count, BLOCK_SIZE).val
    /\ SumIs(last.before_meta, last.count, meta)

\* C14: under a manager made by create no call lowers the offset in memory, the
\* persisted offset or the file length, and each run starts past every earlier one;
\* shown here for the build with overflow checks, where no arithmetic wraps, and for
\* the calls the file system does not fail
C14_Monotonic ==
  (origin = "create" /\ overflow_checks) =>
    /\ (last.op \in {"claimBlock", "write", "read"} /\ last.io = "ok") =>
         /\ U64Le(last.before_meta, meta)
         /\ U64Le(Persisted(last.before), Persisted(file))
         /\ U64Le(last.before.len, file.len)
    /\ \A i \in 1..Len(runs) : \A j \in (i + 1)..Len(runs) :
         U64Lt(runs[i].offset, runs[j].offset)

\* C12: in every state under a manager made by create, the states a failed call
\* leaves behind included, the persisted offset is at least start + block_count (as
\* numbers) of every run returned so far
C12_PersistedCoversRuns ==
  origin = "create" =>
    \A i \in 1..Len(runs) :
      /\ ~U64Add(runs[i].offset, runs[i].count).overflow
      /\ U64Le(U64Add(runs[i].offset, runs[i].count).val, Persisted(file))

\* C13: a claimBlock that fails with an I/O error returns no run and leaves old + count
\* (as a number) in memory; when set_len failed the file is as it was, and when
\* flushMeta failed the file has its new length and the persisted offset is the old one
C13_FailedAllocate ==
  (origin = "create" /\ last.op = "claimBlock" /\ last.res = "io_error") =>
    /\ last.block = NoBlock
    /\ SumIs(last.before_meta, last.count, meta)
    /\ ~U64Mul(meta, BLOCK_SIZE).overflow
    /\ IF last.io = "set_len" \/ ~OffsetOk(U64Mul(meta, BLOCK_SIZE).val)
       THEN file = last.before
       ELSE /\ file.len = U64Mul(meta, BLOCK_SIZE).val
            /\ Persisted(file) = Persisted(last.before)

\* C15: a write or a read through a run of the manager create made, whatever its
\* result, leaves the offset in memory, the bytes of block 0 and the file length alone
C15_MetaOnlyByAllocate ==
  (origin = "create" /\ last.op \in {"write", "read"}) =>
    /\ meta = last.before_meta
    /\ MetaBlock(file) = MetaBlock(last.before)
    /\ file.len = last.before.len

\* the byte of f at position q, 0 where f holds none
ByteAt(f, q) == IF q \in DOMAIN f.data THEN f.data[q] ELSE 0

\* C16: a successful write(A, offset, data) changes file bytes only in the range of
\* len(data) bytes at start * BLOCK_SIZE + offset (as numbers), that range is inside A,
\* and every other run reads back as before
C16_RunIsolation ==
  (origin = "create" /\ last.op = "write" /\ last.res = "ok") =>
    /\ ~AbsolutePosition(runs[last.run], last.offset).overflow
    /\ Fits(last.offset, last.data.len, runs[last.run].size)
    /\ file.len = last.before.len
    /\ \A q \in DOMAIN file.data \cup DOMAIN last.before.data :
         ByteAt(file, q) # ByteAt(last.before, q) =>
           Within(AbsolutePosition(runs[last.run], last.offset).val, q, last.data.len)
    /\ \A j \in 1..Len(runs) :
         j # last.run =>
           readBlockOffset(file, runs[j], Zero64, runs[j].size, overflow_checks,
                           BLOCK_SIZE, "ok")
             = readBlockOffset(last.before, runs[j], Zero64, runs[j].size,
                               overflow_checks, BLOCK_SIZE, "ok")


--------------------------------------------------------------------------
(* readData followed read by read. The file system is free: a read of a    *)
(* slice of n bytes returns any number from 0 to n, or fails. parity is    *)
(* the parity of the number of reads issued, so that a read that returns   *)
(* 0 bytes is a step of its own.                                           *)

MaxLength == 6

\* the lengths asked for: 0 to MaxLength bytes, and one no buffer can be allocated for
ReadLengths == {U64(n) : n \in 0..MaxLength} \cup {U64_MAX}

\* the break of the loop without its test for a read of 0 bytes
read_loop_break_no_eof(read, total_read, max_length) == total_read = max_length

\* line 80: the loop ends after a read of 0 bytes or when the buffer is full
read_loop_break(read, total_read, max_length) == read = 0 \/ total_read = max_length

InitReadLoop ==
  /\ rd = NotReading
  /\ cv = Zero64
  /\ cpc = "idle"
  /\ cenc = EmptyBuf
  /\ cdec = [value |-> Zero64, data |-> EmptyBuf]
  /\ overflow_checks \in BOOLEAN
  /\ file = [len |-> Zero64, data |-> <<>>]
  /\ state = "uninitialized"
  /\ meta = Zero64
  /\ origin = "none"
  /\ runs = <<>>
  /\ history = [pure |-> FALSE, empty |-> FALSE]
  /\ last = [op |-> "none", res |-> "none"]
  /\ nops = NoCalls

\* lines 72-75: the seek, the zeroed buffer, total_read = 0
ReadDataEnter ==
  /\ rd.pc = "idle"
  /\ \E max_length \in ReadLengths, io \in {"ok", "seek"} :
       rd' = IF io = "seek" THEN [NotReading EXCEPT !.pc = "failed"]
             ELSE IF max_length[4] # 0 \/ max_length[3] # 0 \/ max_length[2] >= Pow2(15)
             THEN [NotReading EXCEPT !.pc = "panicked"]
             ELSE [NotReading EXCEPT !.pc = "loop", !.max_length = ToNat(max_length)]
  /\ UNCHANGED <<storageVars, codecVars>>

\* lines 76-83, one pass: a read into buf[total_read..], the ? on its error, the sum, the break
ReadDataPass ==
  /\ rd.pc = "loop"
  /\ \/ \E read \in 0..(rd.max_length - rd.total_read) :
          rd' = [rd EXCEPT !.read = read,
                           !.total_read = rd.total_read + read,
                           !.parity = 1 - rd.parity,
                           !.pc = IF read_loop_break(read, rd.total_read + read, rd.max_length)
                                  THEN "done" ELSE "loop"]
     \/ rd' = [rd EXCEPT !.pc = "failed", !.parity = 1 - rd.parity]
  /\ UNCHANGED <<storageVars, codecVars>>

\* line 84 and the ? returns: the caller has the result
ReadDataReturn ==
  /\ rd.pc \in {"done", "failed"}
  /\ rd' = NotReading
  /\ UNCHANGED <<storageVars, codecVars>>

NextReadLoop == ReadDataEnter \/ ReadDataPass \/ ReadDataReturn

\* the thread in readData keeps running and every read it issues comes back
SpecReadLoop == InitReadLoop /\ [][NextReadLoop]_vars /\ WF_vars(ReadDataPass)

\* C18: the read loop always terminates. Whatever max_length (0 included) and however
\* many bytes each read returns (0, or 1 up to what is left of the buffer), a call in
\* the loop leaves it, and when it leaves it with Ok, either max_length bytes were
\* accumulated or the last read returned 0 bytes; it never holds more than max_length.
C18_ReadLoopTerminates ==
  /\ [](rd.pc \in {"loop", "done"} => rd.total_read <= rd.max_length)
  /\ [](rd.pc = "done" => (rd.total_read = rd.max_length \/ rd.read = 0))
  /\ (rd.pc = "loop") ~> (rd.pc \in {"done", "failed"})

\* short reads of 1 byte each, then the end of the data before the buffer is full
C18_Witness ==
  rd.pc = "done" /\ rd.max_length = 3 /\ rd.total_read = 2 /\ rd.read = 0

============================================================================
